---- MODULE Spec2Model ----
(***************************************************************************)
(* Model of roon_pytui's discovery and connection core:                    *)
(*   - RoonDiscovery.discover_servers   (connection/discovery.py)          *)
(*   - ConnectionManager                (connection/manager.py)            *)
(*   - ConfigManager                    (config/manager.py)                *)
(***************************************************************************)
EXTENDS Integers, Sequences, FiniteSets, TLC

\* ---------------------------------------------------------------- bounds

\* Largest timeout argument passed to discover_servers.
MaxTimeout == 2
\* Most datagrams recvfrom delivers during one discover_servers call.
MaxDatagrams == 3

\* Most sessions (RoonApi instances) created in one run.
MaxSessions == 2
\* Most notifications, and most credential writes, of one connection attempt.
MaxLog == 2

\* Most fields one call of ConfigManager.update names.
MaxKwargs == 2

\* Most network interfaces netifaces.interfaces() lists.
MaxInterfaces == 2

\* ------------------------------------------------------- discovery: data

\* int(properties.get("http_port", 9100)): the default port.
DefaultHttpPort == 9100

\* Python's None, where a string is optional.
None == "<None>"

Digits == {"0", "1", "2", "3", "4", "5", "6", "7", "8", "9"}

DigitVal(c) ==
    CASE c = "0" -> 0 [] c = "1" -> 1 [] c = "2" -> 2 [] c = "3" -> 3
      [] c = "4" -> 4 [] c = "5" -> 5 [] c = "6" -> 6 [] c = "7" -> 7
      [] c = "8" -> 8 [] c = "9" -> 9

RECURSIVE DigitsValue(_)
DigitsValue(s) ==
    IF s = <<>> THEN 0
    ELSE 10 * DigitsValue(SubSeq(s, 1, Len(s) - 1)) + DigitVal(s[Len(s)])

\* The text after an optional sign.
Unsigned(s) == IF s # <<>> /\ s[1] \in {"+", "-"} THEN Tail(s) ELSE s

\* Python's int(str): an optional sign followed by at least one decimal digit;
\* anything else raises ValueError.
PyIntAccepts(s) ==
    /\ Unsigned(s) # <<>>
    /\ \A i \in 1..Len(Unsigned(s)) : Unsigned(s)[i] \in Digits

PyInt(s) ==
    IF s # <<>> /\ s[1] = "-" THEN 0 - DigitsValue(Unsigned(s))
    ELSE DigitsValue(Unsigned(s))

\* A lookup that drops the caller's default.
PropertiesGet_NoDefault(properties, key, default) ==
    IF key \in DOMAIN properties THEN properties[key] ELSE ""

\* dict.get(key, default)
PropertiesGet(properties, key, default) ==
    IF key \in DOMAIN properties THEN properties[key] ELSE default

\* Property sets a response carries besides unique_id.
FullProps ==
    [name |-> "Core", display_version |-> "2.0", http_port |-> <<"9", "3", "3", "0">>]
BareProps == <<>>
BadPortProps == [name |-> "Nucleus", http_port |-> <<"a", "b", "c">>]

\* Numeric http_port texts no TCP port has: 0, -1, 65536.
OutOfRangePorts == {<<"0">>, <<"-", "1">>, <<"6", "5", "5", "3", "6">>}
OutOfRangeProps(port) == [name |-> "Rock", http_port |-> port]

UniqueIds == {"u1", "u2"}

WithId(props, uid) == [unique_id |-> uid] @@ props

\* The datagrams recvfrom may return: one that SOODMessage rejects, and
\* decodable ones with or without unique_id, with full, defaulted,
\* non-numeric or out-of-range http_port properties, from two source hosts.
MalformedDatagram == [kind |-> "malformed", host |-> "10.0.0.5", props |-> <<>>]

OkDatagram(host, props) == [kind |-> "ok", host |-> host, props |-> props]

Datagrams ==
    {MalformedDatagram}
      \cup {OkDatagram("10.0.0.5", FullProps), OkDatagram("10.0.0.6", BareProps),
            OkDatagram("10.0.0.6", BadPortProps)}
      \cup {OkDatagram("10.0.0.5", WithId(FullProps, u)) : u \in UniqueIds}
      \cup {OkDatagram("10.0.0.6", WithId(BareProps, u)) : u \in UniqueIds}
      \cup {OkDatagram("10.0.0.6", WithId(BadPortProps, u)) : u \in UniqueIds}
      \cup {OkDatagram("10.0.0.5", WithId(OutOfRangeProps(port), "u1")) :
              port \in OutOfRangePorts}

ServerInfo(core_id, core_name, display_version, host, http_port) ==
    [core_id |-> core_id, core_name |-> core_name,
     display_version |-> display_version, host |-> host, http_port |-> http_port]

\* ------------------------------------------------------ discovery: state

VARIABLES
    pc,               \* "idle" | "recv" (blocked in sock.recvfrom) | "done"
    timeout,          \* the timeout argument
    servers,          \* the list being accumulated
    seen_unique_ids,  \* the set of ids already recorded
    sockOpen,         \* the UDP socket exists and is not closed
    waited,           \* time spent in the current sock.recvfrom call
    elapsed,          \* time since sock.settimeout(timeout), the loop's start
    result,           \* the list discover_servers returned
    raised,           \* an exception left discover_servers
    endedBy,          \* history: why the call ended
    abortedAt,        \* history: the step whose exception ended the call before the loop
    log               \* history: the datagrams recvfrom returned, in order

discVars == <<pc, timeout, servers, seen_unique_ids, sockOpen, waited, elapsed,
              result, raised, endedBy, abortedAt, log>>

\* ----------------------------------------------------- connection: state

VARIABLES
    state,            \* ConnectionManager._state
    api,              \* ConnectionManager._api: 0 (None) or the session's number
    current_server,   \* ConnectionManager._current_server: <<>> (None) or <<server>>
    auth_callback,    \* ConnectionManager._auth_callback: "unset" (None) | "set"
    sessions,         \* every RoonApi instance created, in order of creation;
                      \*   a stopped one is kept as StoppedSession
    config_file,      \* config.json: <<>> (no file) or <<the JSON object in it>>
    authLog,          \* history: the statuses handed to the auth callback since
                      \*   the last call of connect began, each with whether
                      \*   the callback raised on it
    saveLog,          \* history: the records config_manager.update wrote since
                      \*   the last call of connect began
    ret,              \* history: what connect or reconnect_from_config last returned
    stateTrace        \* history: the values the last call of connect gave _state

connVars == <<state, api, current_server, auth_callback, sessions, config_file,
              authLog, saveLog, ret, stateTrace>>

\* ------------------------------------------------- configuration: state

VARIABLES
    cfgCall           \* history: the last call made on the ConfigManager itself:
                      \*   its name, its arguments, what it returned

cfgVars == <<cfgCall>>

\* ---------------------------------------------------- resolution: state

VARIABLES
    netifaces,        \* what the interface enumeration does when
                      \*   _get_broadcast_addresses uses it
    broadcast_addrs,  \* <<>>, or <<the set _get_broadcast_addresses returned>>
    resolverExc       \* the exception that left _get_broadcast_addresses
                      \*   (None: none)

resVars == <<netifaces, broadcast_addrs, resolverExc>>

\* ------------------------------------------------------- threads: state

VARIABLES
    ctl,              \* the control thread: the call it is in and the line
                      \*   it executes next
    lst,              \* the session's background thread: the line of
                      \*   _on_state_change it executes next
    listenerExc       \* the exception that left _on_state_change (None: none)

thrVars == <<ctl, lst, listenerExc>>

vars == <<discVars, connVars, cfgVars, resVars, thrVars>>

\* --------------------------------------------------- discovery: handlers

\* The steps of discover_servers before the receive loop, in program order.
PreLoopSteps ==
    <<"open_sood", "read_sood", "socket", "bind", "so_reuseaddr", "so_reuseport",
      "multicast_ttl", "sendto_multicast", "so_broadcast",
      "get_broadcast_addresses", "sendto_broadcast", "settimeout">>

StepIndex(step) == CHOOSE i \in 1..Len(PreLoopSteps) : PreLoopSteps[i] = step

\* What a failing step raises.
StepException(step) ==
    CASE step = "open_sood" -> "FileNotFoundError"
      [] step = "get_broadcast_addresses" -> "ImportError"
      [] step = "settimeout" -> "ValueError"
      [] OTHER -> "OSError"

\* Subclasses of Exception that the modelled calls raise.
ExceptionClasses ==
    {"FileNotFoundError", "OSError", "ImportError", "ValueError",
     "FormatException", "socket.timeout"}

\* The steps wrapped in a try of their own whose handler goes on:
\* SO_REUSEPORT (91-95), the multicast send (99-103), each broadcast send (109-113).
LocallyCaught(step) ==
    step \in {"so_reuseport", "sendto_multicast", "sendto_broadcast"}

\* A handler list that names FileNotFoundError only.
OuterExcept_FileNotFoundOnly(exc) ==
    IF exc = "FileNotFoundError" THEN "return_empty" ELSE "propagate"

\* The handlers of the outermost try (170-175): FileNotFoundError and every
\* other Exception return the empty list.
OuterExcept(exc) ==
    IF exc = "FileNotFoundError" \/ exc \in ExceptionClasses
    THEN "return_empty" ELSE "propagate"

\* The socket object exists once socket.socket() returned.
SocketCreated(failAt) == StepIndex(failAt) > StepIndex("socket")

\* Leaving the `with socket.socket(...) as sock` block closes the socket,
\* whether by break or by exception.
WithSocketExit(cause) == FALSE

\* int(properties.get("http_port", 9100))
ParseHttpPort(properties) ==
    IF "http_port" \in DOMAIN properties
    THEN IF PyIntAccepts(properties.http_port)
         THEN [exc |-> "none", val |-> PyInt(properties.http_port)]
         ELSE [exc |-> "ValueError", val |-> 0]
    ELSE [exc |-> "none", val |-> DefaultHttpPort]

\* An inner handler that lets the FormatException through.
InnerExcept_NoHandler(exc) == "reraise"

\* The handler of the inner try (156-158): a FormatException is logged and the
\* loop continues; any other exception reaches the handlers of the outer try.
InnerExcept(exc) == IF exc = "FormatException" THEN "continue" ELSE "reraise"

\* A timeout handler that goes round the loop again instead of leaving it.
LoopExcept_TimeoutContinues(exc) ==
    IF exc = "socket.timeout" THEN "continue"
    ELSE IF exc \in ExceptionClasses THEN "break" ELSE "propagate"

\* A loop that handles the timeout only, every other exception leaving it.
LoopExcept_TimeoutOnly(exc) ==
    IF exc = "socket.timeout" THEN "break" ELSE "propagate"

\* The handlers of the try around recvfrom (160-165): both break.
LoopExcept(exc) ==
    IF exc = "socket.timeout" THEN "break"
    ELSE IF exc \in ExceptionClasses THEN "break" ELSE "propagate"

\* A duplicate test that never matches.
IsDuplicate_Never(unique_id, seen) == FALSE

\* `if unique_id in seen_unique_ids: continue`
IsDuplicate(unique_id, seen) == unique_id \in seen

\* The record built from a decoded response (127-148).
BuildServer(d) ==
    ServerInfo(PropertiesGet(d.props, "unique_id", ""),
               PropertiesGet(d.props, "name", "Unknown"),
               PropertiesGet(d.props, "display_version", "Unknown"),
               d.host,
               ParseHttpPort(d.props).val)

\* One iteration of the loop body after recvfrom returned d (122-158):
\* what happens to the loop, the list and the seen set.
ProcessDatagram(d, srv, seen) ==
    LET exc == IF d.kind = "malformed" THEN "FormatException"
               ELSE ParseHttpPort(d.props).exc
        unique_id == PropertiesGet(d.props, "unique_id", "")
    IN  IF exc # "none"
        THEN [flow |-> IF InnerExcept(exc) = "continue" THEN "continue"
                       ELSE LoopExcept(exc),
              exc |-> exc, servers |-> srv, seen |-> seen]
        ELSE IF IsDuplicate(unique_id, seen)
        THEN [flow |-> "continue", exc |-> exc, servers |-> srv, seen |-> seen]
        ELSE [flow |-> "continue", exc |-> exc,
              servers |-> Append(srv, BuildServer(d)),
              seen |-> seen \cup {unique_id}]

\* `return servers` after the loop (168).
ReturnAfterLoop(srv) == srv

\* ---------------------------------------------------- discovery: actions

InitDiscovery ==
    /\ pc = "idle"
    /\ timeout = 0
    /\ servers = <<>>
    /\ seen_unique_ids = {}
    /\ sockOpen = FALSE
    /\ waited = 0
    /\ elapsed = 0
    /\ result = <<>>
    /\ raised = FALSE
    /\ endedBy = "none"
    /\ abortedAt = "none"
    /\ log = <<>>

\* The end of the call.  flow = "break": the loop was left by break, the with
\* block closes the socket and `return servers` runs (167-168).  Otherwise
\* exception exc is on its way out: the with block closes the socket and the
\* handlers of the outermost try decide (170-175).
EndCall(flow, exc, cause, srv) ==
    /\ pc' = "done"
    /\ endedBy' = cause
    /\ sockOpen' = WithSocketExit(cause)
    /\ IF flow = "break"
       THEN result' = ReturnAfterLoop(srv) /\ raised' = FALSE
       ELSE IF OuterExcept(exc) = "return_empty"
       THEN result' = <<>> /\ raised' = FALSE
       ELSE result' = <<>> /\ raised' = TRUE

\* discover_servers(timeout=t) from its entry to the first recvfrom, with at
\* most one step failing (failAt = "none": no step fails).
DiscoverServers(t, failAt) ==
    /\ pc = "idle"
    /\ UNCHANGED <<connVars, cfgVars, resVars, thrVars>>
    /\ timeout' = t
    /\ servers' = <<>>
    /\ seen_unique_ids' = {}
    /\ UNCHANGED <<waited, elapsed, log>>
    /\ IF failAt = "none" \/ LocallyCaught(failAt)
       THEN /\ pc' = "recv"
            /\ sockOpen' = TRUE
            /\ UNCHANGED <<result, raised, endedBy, abortedAt>>
       ELSE /\ pc' = "done"
            /\ endedBy' = "preloop"
            /\ abortedAt' = failAt
            /\ sockOpen' = (SocketCreated(failAt) /\ WithSocketExit("preloop"))
            /\ result' = <<>>
            /\ raised' = (OuterExcept(StepException(failAt)) # "return_empty")

\* Time passes while the call is blocked in recvfrom.  The socket timeout set
\* by sock.settimeout(timeout) bounds each blocking call: the wait cannot
\* last longer than `timeout` from the moment recvfrom was called.
Tick ==
    /\ pc = "recv"
    /\ UNCHANGED <<connVars, cfgVars, resVars, thrVars>>
    /\ waited < timeout
    /\ waited' = waited + 1
    /\ elapsed' = elapsed + 1
    /\ UNCHANGED <<pc, timeout, servers, seen_unique_ids, sockOpen, result,
                   raised, endedBy, abortedAt, log>>

\* recvfrom returns datagram d and the loop body runs on it.  When the body
\* continues, the loop calls recvfrom again, and the socket timeout applies
\* to that call from its own start.
RecvDatagram(d) ==
    /\ pc = "recv"
    /\ UNCHANGED <<connVars, cfgVars, resVars, thrVars>>
    /\ waited < timeout
    /\ Len(log) < MaxDatagrams
    /\ log' = Append(log, d)
    /\ LET r == ProcessDatagram(d, servers, seen_unique_ids)
       IN  /\ servers' = r.servers
           /\ seen_unique_ids' = r.seen
           /\ IF r.flow = "continue"
              THEN /\ waited' = 0
                   /\ UNCHANGED <<pc, sockOpen, result, raised, endedBy>>
              ELSE /\ EndCall(r.flow, r.exc, "exception", r.servers)
                   /\ UNCHANGED waited
    /\ UNCHANGED <<timeout, elapsed, abortedAt>>

\* recvfrom raises exception exc: socket.timeout once the socket timeout has
\* passed, or an OSError at any time.
RecvRaises(exc, cause) ==
    /\ pc = "recv"
    /\ UNCHANGED <<connVars, cfgVars, resVars, thrVars>>
    /\ IF LoopExcept(exc) = "continue"
       THEN /\ waited' = 0
            /\ UNCHANGED <<pc, sockOpen, result, raised, endedBy>>
       ELSE /\ EndCall(LoopExcept(exc), exc, cause, servers)
            /\ UNCHANGED waited
    /\ UNCHANGED <<timeout, servers, seen_unique_ids, elapsed, abortedAt, log>>

RecvTimeout ==
    /\ waited = timeout
    /\ RecvRaises("socket.timeout", "timeout")

RecvError == RecvRaises("OSError", "ioerror")

NextDiscovery ==
    \/ \E t \in 1..MaxTimeout :
         \E failAt \in {"none"} \cup {PreLoopSteps[i] : i \in 1..Len(PreLoopSteps)} :
           DiscoverServers(t, failAt)
    \/ Tick
    \/ \E d \in Datagrams : RecvDatagram(d)
    \/ RecvTimeout
    \/ RecvError

\* ------------------------------------------------------ connection: data

ServerA == ServerInfo("core-a", "Core A", "2.0", "10.0.0.5", 9330)
ServerB == ServerInfo("core-b", "Core B", "2.0", "10.0.0.6", 9100)
\* The record discover_servers builds from a response without properties
\* (BareProps) sent by 10.0.0.6: the id defaults to "".
ServerC == ServerInfo("", "Unknown", "Unknown", "10.0.0.6", DefaultHttpPort)
Servers == {ServerA, ServerB, ServerC}

\* The token the Core at `host` issues when the user authorizes the extension.
CoreToken(host) == IF host = "10.0.0.5" THEN "tok-a" ELSE "tok-b"

\* AppConfig(): every field None (port, an optional int: <<>> or <<n>>).
DefaultAppConfig ==
    [core_id |-> None, core_name |-> None, token |-> None, host |-> None,
     port |-> <<>>]

\* What config.json may hold when the manager is constructed: nothing, a
\* complete record of an earlier run, a record without a host.
StoredB ==
    [core_id |-> "core-b", core_name |-> None, token |-> "tok-b",
     host |-> "10.0.0.6", port |-> <<9100>>]

AppConfigFields == {"core_id", "core_name", "token", "host", "port"}

\* JSON values, as json.dump writes and json.load reads them.
JsonNull == [t |-> "null"]
JsonString(s) == [t |-> "string", v |-> s]
JsonNumber(n) == [t |-> "number", v |-> n]

JsonOfField_PortAsText(key, value) ==
    IF value = (IF key = "port" THEN <<>> ELSE None) THEN JsonNull
    ELSE JsonString(IF key = "port" THEN value[1] ELSE value)

\* config.model_dump() and json.dump of one field: None is written as null,
\* a string as a JSON string, the port as a JSON number.
JsonOfField(key, value) ==
    IF key = "port"
    THEN IF value = <<>> THEN JsonNull ELSE JsonNumber(value[1])
    ELSE IF value = None THEN JsonNull ELSE JsonString(value)

\* json.dump(config.model_dump(), f): the JSON object written to config.json.
JsonDump(config) ==
    [kind |-> "object",
     members |-> [k \in DOMAIN config |-> JsonOfField(k, config[k])]]

\* Content of config.json that ConfigManager.save never writes: text that is
\* no JSON, a JSON list, an object whose core_id is a number.
NotJson == [kind |-> "garbage"]
JsonArray == [kind |-> "array"]
WrongTypes ==
    [kind |-> "object",
     members |-> [core_id |-> JsonNumber(7), host |-> JsonString("10.0.0.6")]]
ForeignDocuments == {NotJson, JsonArray, WrongTypes}

\* What config.json may hold when the manager is constructed: nothing, a
\* complete record of an earlier run, a record with a null core_id or port,
\* an object without the "host" key, a JSON list.
InitialConfigFiles ==
    {<<>>, <<JsonDump(StoredB)>>,
     <<JsonDump([StoredB EXCEPT !.core_id = None])>>,
     <<JsonDump([StoredB EXCEPT !.port = <<>>])>>,
     <<[kind |-> "object",
        members |-> [k \in AppConfigFields \ {"host"} |->
                       JsonDump(StoredB).members[k]]]>>,
     <<JsonArray>>}

AuthenticationStatus(is_authenticated, token, error_message) ==
    [is_authenticated |-> is_authenticated, token |-> token,
     error_message |-> error_message]

\* Truth value of an optional string: None and "" are false.
Truthy(x) == x \notin {None, ""}

\* --------------------------------------------------- connection: handlers

\* AppConfig(**data), one field: an absent key and null give the default
\* None; a str field takes a string, the int field a number; any other value
\* is a validation error.
ValidateField(key, data) ==
    LET default == IF key = "port" THEN <<>> ELSE None
    IN  IF key \notin DOMAIN data \/ data[key].t = "null"
        THEN [ok |-> TRUE, value |-> default]
        ELSE IF key = "port" /\ data[key].t = "number"
        THEN [ok |-> TRUE, value |-> <<data[key].v>>]
        ELSE IF key # "port" /\ data[key].t = "string"
        THEN [ok |-> TRUE, value |-> data[key].v]
        ELSE [ok |-> FALSE, value |-> default]

\* json.load(f): the decoded value, or JSONDecodeError for text that is no
\* JSON.
JsonLoad(text) ==
    IF text.kind = "garbage" THEN [exc |-> "JSONDecodeError", data |-> text]
    ELSE [exc |-> None, data |-> text]

\* AppConfig(**data): the validated record; pydantic's ValidationError (a
\* ValueError) when a field has the wrong type; TypeError when data is not
\* a mapping, which ** requires.
AppConfigOf(data) ==
    IF data.kind # "object"
    THEN [exc |-> "TypeError", config |-> DefaultAppConfig]
    ELSE LET f == [k \in AppConfigFields |-> ValidateField(k, data.members)]
         IN  IF \A k \in AppConfigFields : f[k].ok
             THEN [exc |-> None, config |-> [k \in AppConfigFields |-> f[k].value]]
             ELSE [exc |-> "ValueError", config |-> DefaultAppConfig]

\* `except (json.JSONDecodeError, ValueError)` in load: the default record is
\* returned; any other exception leaves load.
LoadExcept(exc) ==
    IF exc \in {"JSONDecodeError", "ValueError"} THEN "return_default"
    ELSE "propagate"

\* ConfigManager.load: the exception that leaves it (None: it returns) and
\* the record it returns.
LoadOutcome(file) ==
    IF file = <<>> THEN [exc |-> None, config |-> DefaultAppConfig]
    ELSE LET decoded == JsonLoad(file[1])
             loaded == IF decoded.exc # None
                       THEN [exc |-> decoded.exc, config |-> DefaultAppConfig]
                       ELSE AppConfigOf(decoded.data)
         IN  IF loaded.exc = None THEN loaded
             ELSE IF LoadExcept(loaded.exc) = "return_default"
             THEN [exc |-> None, config |-> DefaultAppConfig]
             ELSE [exc |-> loaded.exc, config |-> DefaultAppConfig]

\* The exception that leaves load() on this file, None when it returns.
LoadException(file) == LoadOutcome(file).exc

\* ConfigManager.load: the record it returns: the default record when the
\* file does not exist or its content is rejected, the record read from the
\* file otherwise.
ConfigLoad(file) == LoadOutcome(file).config

\* ConfigManager.save(config): config.json afterwards.
ConfigSave(config) == <<JsonDump(config)>>

ConfigUpdate_FromDefaults(file, kwargs) == kwargs @@ DefaultAppConfig

\* ConfigManager.update(**kwargs) begins with load(): what leaves load leaves
\* update, before anything is written.
UpdateException(file) == LoadException(file)

\* ConfigManager.update(**kwargs): the loaded record with the named fields
\* overwritten; it is saved and returned.
ConfigUpdate(file, kwargs) == kwargs @@ ConfigLoad(file)

\* RoonApi(app_info, token=token, host=server.host, port=server.http_port)
NewSession(server, token, registered) ==
    [host |-> server.host, port |-> server.http_port, token |-> token,
     stopped |-> FALSE, registered |-> registered]

\* A session after stop(): it delivers no event and nothing refers to it.
StoppedSession ==
    [host |-> None, port |-> 0, token |-> None, stopped |-> TRUE,
     registered |-> FALSE]

\* A session the manager no longer refers to (self._api was reassigned or
\* cleared): no handler reads its fields again, it only goes on delivering
\* events if it is registered and was not stopped.
Detached(session) ==
    IF session.stopped \/ ~session.registered THEN StoppedSession
    ELSE [host |-> None, port |-> 0, token |-> None, stopped |-> FALSE,
          registered |-> TRUE]

NotifyAuthStatus_Twice(delivered, status, cbRaises) ==
    IF auth_callback # "unset"
    THEN Append(Append(delivered, status @@ [cb_raised |-> cbRaises]),
                status @@ [cb_raised |-> cbRaises])
    ELSE delivered

\* _notify_auth_status: the callback, when one is set, is called with the
\* status.  The statuses delivered, after the call, each with whether the
\* callback raised on it.
NotifyAuthStatus(delivered, status, cbRaises) ==
    IF auth_callback # "unset"
    THEN Append(delivered, status @@ [cb_raised |-> cbRaises])
    ELSE delivered

CallbackEscapes_Propagates(cbRaises) == cbRaises

\* _notify_auth_status wraps the call of the callback in try/except
\* Exception: what the callback raises does not leave the method.
CallbackEscapes(cbRaises) == FALSE

SessionAuthorized_HandleOnly == api # 0

\* `if self._api and hasattr(self._api, "token") and self._api.token`
SessionAuthorized == api # 0 /\ Truthy(sessions[api].token)

\* The keyword arguments of config_manager.update in _on_state_change.
CredentialOf(server, token) ==
    [core_id |-> server.core_id, core_name |-> server.core_name,
     token |-> token, host |-> server.host, port |-> <<server.http_port>>]

\* The body of ConnectionManager._on_state_change.  cbRaises: the auth
\* callback raises when called.  updateRaises: config_manager.update raises
\* (config.json cannot be opened for writing); the exception leaves the
\* listener before the callback is notified, as does what update's load()
\* raises on the content of config.json.
OnStateChange(cbRaises, updateRaises) ==
    IF SessionAuthorized /\ (updateRaises \/ UpdateException(config_file) # None)
                         /\ current_server # <<>>
    THEN /\ state' = "connected"
         /\ UNCHANGED <<config_file, saveLog, authLog>>
    ELSE IF SessionAuthorized
    THEN /\ state' = "connected"
         /\ IF current_server # <<>>
            THEN LET written ==
                       ConfigUpdate(config_file,
                                    CredentialOf(current_server[1], sessions[api].token))
                 IN  /\ config_file' = ConfigSave(written)
                     /\ saveLog' = Append(saveLog, written)
            ELSE UNCHANGED <<config_file, saveLog>>
         /\ authLog' = NotifyAuthStatus(authLog,
                         AuthenticationStatus(TRUE, sessions[api].token, None),
                         cbRaises)
    ELSE UNCHANGED <<state, config_file, saveLog, authLog>>

\* The body of ConnectionManager.connect.  outcome: "ok", or the call that
\* raises: "ctor_raises" (RoonApi(...)), "register_raises"
\* (register_state_callback).  cbRaises: the auth callback raises when called.
DoConnect(op, server, token, outcome, cbRaises) ==
    /\ current_server' = <<server>>
    /\ IF outcome = "ctor_raises"
       THEN UNCHANGED <<api, sessions>>
       ELSE /\ sessions' = Append(IF api = 0 THEN sessions
                                   ELSE [sessions EXCEPT ![api] = Detached(@)],
                                   NewSession(server, token, outcome = "ok"))
            /\ api' = Len(sessions) + 1
    /\ IF outcome = "ok"
       THEN /\ state' = "authenticating"
            /\ stateTrace' = <<"connecting", "authenticating">>
            /\ ret' = [op |-> op, value |-> "True"]
            /\ authLog' = <<>>
       ELSE /\ state' = "error"
            /\ stateTrace' = <<"connecting", "error">>
            /\ authLog' = NotifyAuthStatus(<<>>,
                            AuthenticationStatus(FALSE, None, "connection failed"),
                            cbRaises)
            /\ ret' = [op |-> op,
                        value |-> IF auth_callback # "unset" /\ CallbackEscapes(cbRaises)
                                  THEN "raised" ELSE "False"]
    /\ saveLog' = <<>>
    /\ UNCHANGED <<auth_callback, config_file>>

ConnectOutcomes == {"ok", "ctor_raises", "register_raises"}

NoSavedConfiguration_IdIgnored(config) ==
    ~Truthy(config.host) \/ config.port = <<>> \/ config.port = <<0>>

\* `if not config.core_id or not config.host or not config.port`
NoSavedConfiguration(config) ==
    \/ ~Truthy(config.core_id)
    \/ ~Truthy(config.host)
    \/ config.port = <<>> \/ config.port = <<0>>

\* Room in the histories for what a listener run may append.
LogsHaveRoom == Len(authLog) < MaxLog /\ Len(saveLog) < MaxLog

CanConnect(outcome) == outcome # "ctor_raises" => Len(sessions) < MaxSessions

\* ---------------------------------------------------- connection: actions

InitConnection ==
    /\ state = "disconnected"
    /\ api = 0
    /\ current_server = <<>>
    /\ auth_callback = "unset"
    /\ sessions = <<>>
    /\ config_file \in InitialConfigFiles
    /\ authLog = <<>>
    /\ saveLog = <<>>
    /\ ret = [op |-> "init", value |-> "None"]
    /\ stateTrace = <<>>

\* set_auth_callback(callback); the application registers its callback once,
\* after construction.
SetAuthCallback ==
    /\ auth_callback = "unset"
    /\ auth_callback' = "set"
    /\ UNCHANGED <<state, api, current_server, sessions, config_file, authLog,
                   saveLog, ret, stateTrace>>
    /\ UNCHANGED <<discVars, cfgVars, resVars, thrVars>>

\* connect(server, token)
Connect(server, token, outcome, cbRaises) ==
    /\ CanConnect(outcome)
    /\ DoConnect("connect", server, token, outcome, cbRaises)
    /\ UNCHANGED <<discVars, cfgVars, resVars, thrVars>>

\* The Core authorizes the extension: session i, the one the manager holds,
\* now holds the Core's token.
Authorize(i) ==
    /\ i \in 1..Len(sessions)
    /\ i = api
    /\ ~sessions[i].stopped
    /\ ~Truthy(sessions[i].token)
    /\ sessions' = [sessions EXCEPT ![i].token = CoreToken(sessions[i].host)]
    /\ UNCHANGED <<state, api, current_server, auth_callback, config_file,
                   authLog, saveLog, ret, stateTrace>>
    /\ UNCHANGED <<discVars, cfgVars, resVars, thrVars>>

\* Session i delivers a state-change event to the listener connect
\* registered on it: _on_state_change runs.  cbRaises: the auth callback
\* raises when called.  updateRaises: config_manager.update, when the
\* listener calls it, raises.
StateChangeEvent(i, cbRaises, updateRaises) ==
    /\ i \in 1..Len(sessions)
    /\ sessions[i].registered
    /\ ~sessions[i].stopped
    /\ LogsHaveRoom
    /\ updateRaises => (SessionAuthorized /\ current_server # <<>> /\ ~cbRaises)
    /\ (SessionAuthorized /\ current_server # <<>>
           /\ UpdateException(config_file) # None) => ~cbRaises
    /\ OnStateChange(cbRaises, updateRaises)
    /\ ret' = IF updateRaises
               THEN [op |-> "_on_state_change", value |-> "OSError"]
               ELSE IF SessionAuthorized /\ current_server # <<>>
                       /\ UpdateException(config_file) # None
               THEN [op |-> "_on_state_change", value |-> UpdateException(config_file)]
               ELSE IF SessionAuthorized /\ auth_callback # "unset"
                       /\ CallbackEscapes(cbRaises)
               THEN [op |-> "_on_state_change", value |-> "raised"]
               ELSE ret
    /\ UNCHANGED <<api, current_server, auth_callback, sessions, stateTrace>>
    /\ UNCHANGED <<discVars, cfgVars, resVars, thrVars>>

Disconnect_StopPropagates(stopRaises) ==
    /\ stopRaises => api # 0
    /\ IF api # 0
       THEN sessions' = IF stopRaises THEN [sessions EXCEPT ![api] = Detached(@)]
                        ELSE [sessions EXCEPT ![api] = StoppedSession]
       ELSE UNCHANGED sessions
    /\ api' = 0
    /\ state' = IF stopRaises THEN state ELSE "disconnected"
    /\ current_server' = IF stopRaises THEN current_server ELSE <<>>
    /\ UNCHANGED <<auth_callback, config_file, authLog, saveLog, ret, stateTrace>>
    /\ UNCHANGED <<discVars, cfgVars, resVars, thrVars>>

\* disconnect(); stopRaises: self._api.stop() raises.
Disconnect(stopRaises) ==
    /\ stopRaises => api # 0
    /\ IF api # 0
       THEN sessions' = IF stopRaises THEN [sessions EXCEPT ![api] = Detached(@)]
                        ELSE [sessions EXCEPT ![api] = StoppedSession]
       ELSE UNCHANGED sessions
    /\ api' = 0
    /\ state' = "disconnected"
    /\ current_server' = <<>>
    /\ UNCHANGED <<auth_callback, config_file, authLog, saveLog, ret, stateTrace>>
    /\ UNCHANGED <<discVars, cfgVars, resVars, thrVars>>

\* reconnect_from_config()
ReconnectFromConfig(outcome, cbRaises) ==
    LET config == ConfigLoad(config_file)
    IN  IF LoadException(config_file) # None
        THEN /\ outcome = "ok" /\ ~cbRaises
             /\ ret' = [op |-> "reconnect_from_config",
                         value |-> LoadException(config_file)]
             /\ UNCHANGED <<state, api, current_server, auth_callback, sessions,
                            config_file, authLog, saveLog, stateTrace>>
             /\ UNCHANGED <<discVars, cfgVars, resVars, thrVars>>
        ELSE IF NoSavedConfiguration(config)
        THEN /\ outcome = "ok" /\ ~cbRaises
             /\ ret' = [op |-> "reconnect_from_config", value |-> "False"]
             /\ UNCHANGED <<state, api, current_server, auth_callback, sessions,
                            config_file, authLog, saveLog, stateTrace>>
             /\ UNCHANGED <<discVars, cfgVars, resVars, thrVars>>
        ELSE /\ CanConnect(outcome)
             /\ DoConnect("reconnect_from_config",
                          ServerInfo(config.core_id,
                                     IF Truthy(config.core_name)
                                     THEN config.core_name ELSE "Unknown",
                                     "Unknown", config.host, config.port[1]),
                          config.token, outcome, cbRaises)
             /\ UNCHANGED <<discVars, cfgVars, resVars, thrVars>>

NextConnection ==
    \/ SetAuthCallback
    \/ \E server \in Servers, outcome \in ConnectOutcomes, cbRaises \in BOOLEAN :
         \E token \in {None, CoreToken(server.host)} :
           Connect(server, token, outcome, cbRaises)
    \/ \E i \in 1..MaxSessions : Authorize(i)
    \/ \E i \in 1..MaxSessions, cbRaises \in BOOLEAN, updateRaises \in BOOLEAN :
         StateChangeEvent(i, cbRaises, updateRaises)
    \/ \E stopRaises \in BOOLEAN : Disconnect(stopRaises)
    \/ \E outcome \in ConnectOutcomes, cbRaises \in BOOLEAN :
         ReconnectFromConfig(outcome, cbRaises)

\* ------------------------------------------------- configuration: actions

\* The records and keyword arguments the ConfigManager is called with: each
\* field None or set.
AppConfigs ==
    [core_id : {None, "core-b"}, core_name : {None, "Core B"},
     token : {None, "tok-b"}, host : {None, "10.0.0.6"}, port : {<<>>, <<9100>>}]

Kwargs ==
    {[k \in K |-> c[k]] :
       K \in {F \in SUBSET AppConfigFields : Cardinality(F) <= MaxKwargs},
       c \in AppConfigs}

InitConfig == cfgCall = [op |-> "init"]

\* config_manager.save(config)
SaveCall(config) ==
    /\ config_file' = ConfigSave(config)
    /\ cfgCall' = [op |-> "save", config |-> config]
    /\ UNCHANGED <<state, api, current_server, auth_callback, sessions, authLog,
                   saveLog, ret, stateTrace>>
    /\ UNCHANGED <<discVars, resVars, thrVars>>

\* config_manager.load()
LoadCall ==
    /\ cfgCall' = [op |-> "load", after |-> cfgCall.op,
                    exc |-> LoadException(config_file),
                    value |-> ConfigLoad(config_file)]
    /\ UNCHANGED <<connVars, discVars, resVars, thrVars>>

\* config_manager.update(**kwargs)
UpdateCall(kwargs) ==
    LET updated_config == ConfigUpdate(config_file, kwargs)
    IN  /\ config_file' = IF UpdateException(config_file) # None THEN config_file
                           ELSE ConfigSave(updated_config)
        /\ cfgCall' = [op |-> "update", kwargs |-> kwargs, before |-> config_file,
                        exc |-> UpdateException(config_file),
                        value |-> updated_config]
        /\ UNCHANGED <<state, api, current_server, auth_callback, sessions,
                       authLog, saveLog, ret, stateTrace>>
        /\ UNCHANGED <<discVars, resVars, thrVars>>

\* Something other than the ConfigManager replaces the content of
\* config.json (an editor, another program, a write cut short).
FileOverwritten(document) ==
    /\ config_file' = <<document>>
    /\ cfgCall' = [op |-> "overwritten"]
    /\ UNCHANGED <<state, api, current_server, auth_callback, sessions, authLog,
                   saveLog, ret, stateTrace>>
    /\ UNCHANGED <<discVars, resVars, thrVars>>

\* config_manager.clear(): the file, when it exists, is removed.
ClearCall ==
    /\ config_file' = <<>>
    /\ cfgCall' = [op |-> "clear", existed |-> config_file # <<>>]
    /\ UNCHANGED <<state, api, current_server, auth_callback, sessions, authLog,
                   saveLog, ret, stateTrace>>
    /\ UNCHANGED <<discVars, resVars, thrVars>>

NextConfig ==
    \/ \E config \in AppConfigs : SaveCall(config)
    \/ LoadCall
    \/ \E kwargs \in Kwargs : UpdateCall(kwargs)
    \/ ClearCall
    \/ \E document \in ForeignDocuments : FileOverwritten(document)

\* --------------------------------------------------- resolution: handlers

\* broadcast_addrs.add("255.255.255.255")
LimitedBroadcast == "255.255.255.255"

\* What netifaces.ifaddresses(interface) does for one interface: it returns
\* the IPv4 entries of the interface (none: the mapping has no AF_INET key),
\* each with or without a "broadcast" key, or it raises.
LookupOutcomes ==
    {[exc |-> None, inet |-> <<>>],
     [exc |-> None, inet |-> <<[addr |-> "192.168.1.7", broadcast |-> "192.168.1.255"]>>],
     [exc |-> None, inet |-> <<[addr |-> "10.8.0.2"],
                               [addr |-> "10.0.0.7", broadcast |-> "10.0.0.255"]>>],
     [exc |-> "ValueError"], [exc |-> "KeyError"],
     [exc |-> "PermissionError"], [exc |-> "OSError"]}

\* The lookups of the interfaces netifaces.interfaces() lists, in its order.
InterfaceLists ==
    UNION {[1..n -> LookupOutcomes] : n \in 0..MaxInterfaces}

\* The enumeration subsystem a call meets: whether `import netifaces`
\* succeeds, what netifaces.interfaces() raises (None: it returns), and the
\* interfaces it lists.
NetEnvironments ==
    {[importable |-> TRUE, listing |-> None, lookups |-> l] : l \in InterfaceLists}
      \cup {[importable |-> TRUE, listing |-> "OSError", lookups |-> <<>>],
            [importable |-> FALSE, listing |-> None, lookups |-> <<>>]}

\* The "broadcast" values of the IPv4 entries of one interface (35-39).
BroadcastsOf(inet) ==
    {inet[j].broadcast : j \in {j \in 1..Len(inet) : "broadcast" \in DOMAIN inet[j]}}

\* `except (ValueError, KeyError)` around one interface's lookup (40-42).
InterfaceExcept(exc) ==
    IF exc \in {"ValueError", "KeyError"} THEN "continue" ELSE "propagate"

\* `except Exception` around the enumeration (44-45): a warning is logged and
\* the function goes on to its return.
EnumerationExcept(exc) ==
    IF exc \in ExceptionClasses \cup {"KeyError", "PermissionError"}
    THEN "log_warning" ELSE "propagate"

\* The loop over the interfaces from the i-th on (31-42), acc being
\* broadcast_addrs so far: the set at the loop's end, and the exception that
\* left the loop.
RECURSIVE EnumerateFrom(_, _, _)
EnumerateFrom(lookups, i, acc) ==
    IF i > Len(lookups) THEN [exc |-> None, addrs |-> acc]
    ELSE IF lookups[i].exc = None
    THEN EnumerateFrom(lookups, i + 1, acc \cup BroadcastsOf(lookups[i].inet))
    ELSE IF InterfaceExcept(lookups[i].exc) = "continue"
    THEN EnumerateFrom(lookups, i + 1, acc)
    ELSE [exc |-> lookups[i].exc, addrs |-> acc]

\* _get_broadcast_addresses(): the exception that leaves it (None: it
\* returns) and the set it returns.
GetBroadcastAddresses(env) ==
    IF ~env.importable THEN [exc |-> "ImportError", addrs |-> {}]
    ELSE LET enumerated ==
               IF env.listing # None
               THEN [exc |-> env.listing, addrs |-> {LimitedBroadcast}]
               ELSE EnumerateFrom(env.lookups, 1, {LimitedBroadcast})
         IN  IF enumerated.exc = None
                \/ EnumerationExcept(enumerated.exc) = "log_warning"
             THEN [exc |-> None, addrs |-> enumerated.addrs]
             ELSE enumerated

\* ---------------------------------------------------- resolution: actions

\* A host whose enumeration library loads and lists no interface.
NoInterfaces == [importable |-> TRUE, listing |-> None, lookups |-> <<>>]

NotResolved == broadcast_addrs = <<>> /\ resolverExc = None

InitResolver == netifaces = NoInterfaces /\ NotResolved

\* The call of _get_broadcast_addresses.
ResolveCall ==
    /\ NotResolved
    /\ LET returned == GetBroadcastAddresses(netifaces)
       IN  /\ broadcast_addrs' = IF returned.exc = None THEN <<returned.addrs>>
                                  ELSE <<>>
           /\ resolverExc' = returned.exc
    /\ UNCHANGED netifaces
    /\ UNCHANGED <<discVars, connVars, cfgVars, thrVars>>

NextResolver == ResolveCall

\* ------------------------------------------------------ threads: actions
\*
\* connect and disconnect run on the control thread, _on_state_change on the
\* background thread of a session; no lock orders them.  Each action below
\* is one statement of one of the three methods, `at` being the line of the
\* statement the thread executes next.

ControlIdle(last) == [op |-> "idle", last |-> last]

ListenerIdle == [at |-> 0]

InitThreads ==
    /\ ctl = ControlIdle("none")
    /\ lst = ListenerIdle
    /\ listenerExc = None

\* connect(server, token) is called: line 71, self._state = CONNECTING.
ConnectCalled(server, token) ==
    /\ ctl.op = "idle"
    /\ ctl' = [op |-> "connect", at |-> 72, server |-> server, token |-> token]
    /\ state' = "connecting"
    /\ stateTrace' = <<"connecting">>
    /\ authLog' = <<>>
    /\ saveLog' = <<>>
    /\ UNCHANGED <<api, current_server, auth_callback, sessions, config_file, ret>>
    /\ UNCHANGED <<lst, listenerExc>>
    /\ UNCHANGED <<discVars, cfgVars, resVars>>

\* Line 72: self._current_server = server.
ConnectSetsServer ==
    /\ ctl.op = "connect" /\ ctl.at = 72
    /\ current_server' = <<ctl.server>>
    /\ ctl' = [ctl EXCEPT !.at = 76]
    /\ UNCHANGED <<state, api, auth_callback, sessions, config_file, authLog,
                   saveLog, ret, stateTrace>>
    /\ UNCHANGED <<lst, listenerExc>>
    /\ UNCHANGED <<discVars, cfgVars, resVars>>

\* Lines 76-81: self._api = RoonApi(...); ctorRaises: the constructor raises.
ConnectCreatesSession(ctorRaises) ==
    /\ ctl.op = "connect" /\ ctl.at = 76
    /\ CanConnect(IF ctorRaises THEN "ctor_raises" ELSE "ok")
    /\ IF ctorRaises
       THEN /\ ctl' = [ctl EXCEPT !.at = 94]
            /\ UNCHANGED <<api, sessions>>
       ELSE /\ sessions' = Append(IF api = 0 THEN sessions
                                   ELSE [sessions EXCEPT ![api] = Detached(@)],
                                   NewSession(ctl.server, ctl.token, FALSE))
            /\ api' = Len(sessions) + 1
            /\ ctl' = [ctl EXCEPT !.at = 84]
    /\ UNCHANGED <<state, current_server, auth_callback, config_file, authLog,
                   saveLog, ret, stateTrace>>
    /\ UNCHANGED <<lst, listenerExc>>
    /\ UNCHANGED <<discVars, cfgVars, resVars>>

\* Line 84: self._api.register_state_callback(self._on_state_change);
\* registerRaises: the call raises.
ConnectRegisters(registerRaises) ==
    /\ ctl.op = "connect" /\ ctl.at = 84
    /\ IF registerRaises
       THEN /\ ctl' = [ctl EXCEPT !.at = 94]
            /\ UNCHANGED sessions
       ELSE /\ sessions' = [sessions EXCEPT ![api].registered = TRUE]
            /\ ctl' = [ctl EXCEPT !.at = 87]
    /\ UNCHANGED <<state, api, current_server, auth_callback, config_file,
                   authLog, saveLog, ret, stateTrace>>
    /\ UNCHANGED <<lst, listenerExc>>
    /\ UNCHANGED <<discVars, cfgVars, resVars>>

\* Line 87: self._state = AUTHENTICATING.
ConnectSetsAuthenticating ==
    /\ ctl.op = "connect" /\ ctl.at = 87
    /\ state' = "authenticating"
    /\ stateTrace' = Append(stateTrace, "authenticating")
    /\ ctl' = [ctl EXCEPT !.at = 90]
    /\ UNCHANGED <<api, current_server, auth_callback, sessions, config_file,
                   authLog, saveLog, ret>>
    /\ UNCHANGED <<lst, listenerExc>>
    /\ UNCHANGED <<discVars, cfgVars, resVars>>

\* Line 90: return True.
ConnectReturnsTrue ==
    /\ ctl.op = "connect" /\ ctl.at = 90
    /\ ret' = [op |-> "connect", value |-> "True"]
    /\ ctl' = ControlIdle("connect")
    /\ UNCHANGED <<state, api, current_server, auth_callback, sessions,
                   config_file, authLog, saveLog, stateTrace>>
    /\ UNCHANGED <<lst, listenerExc>>
    /\ UNCHANGED <<discVars, cfgVars, resVars>>

\* Lines 92-98, the handler of connect's try: self._state = ERROR, the
\* failure status is notified, return False.
ConnectExcept(cbRaises) ==
    /\ ctl.op = "connect" /\ ctl.at = 94
    /\ Len(authLog) < MaxLog
    /\ state' = "error"
    /\ stateTrace' = Append(stateTrace, "error")
    /\ authLog' = NotifyAuthStatus(authLog,
                     AuthenticationStatus(FALSE, None, "connection failed"),
                     cbRaises)
    /\ ret' = [op |-> "connect",
                value |-> IF auth_callback # "unset" /\ CallbackEscapes(cbRaises)
                          THEN "raised" ELSE "False"]
    /\ ctl' = ControlIdle("connect")
    /\ UNCHANGED <<api, current_server, auth_callback, sessions, config_file,
                   saveLog>>
    /\ UNCHANGED <<lst, listenerExc>>
    /\ UNCHANGED <<discVars, cfgVars, resVars>>

\* disconnect() is called: line 146, `if self._api:`.
DisconnectCalled ==
    /\ ctl.op = "idle"
    /\ ctl' = [op |-> "disconnect", at |-> IF api # 0 THEN 148 ELSE 153]
    /\ UNCHANGED connVars
    /\ UNCHANGED <<lst, listenerExc>>
    /\ UNCHANGED <<discVars, cfgVars, resVars>>

\* Line 148: self._api.stop(); stopRaises: the call raises and the session
\* keeps running (149-150 log a warning).
DisconnectStops(stopRaises) ==
    /\ ctl.op = "disconnect" /\ ctl.at = 148
    /\ sessions' = IF stopRaises THEN sessions
                    ELSE [sessions EXCEPT ![api].stopped = TRUE]
    /\ ctl' = [ctl EXCEPT !.at = 151]
    /\ UNCHANGED <<state, api, current_server, auth_callback, config_file,
                   authLog, saveLog, ret, stateTrace>>
    /\ UNCHANGED <<lst, listenerExc>>
    /\ UNCHANGED <<discVars, cfgVars, resVars>>

\* Line 151, the finally clause: self._api = None.
DisconnectClearsApi ==
    /\ ctl.op = "disconnect" /\ ctl.at = 151
    /\ sessions' = [sessions EXCEPT ![api] = Detached(@)]
    /\ api' = 0
    /\ ctl' = [ctl EXCEPT !.at = 153]
    /\ UNCHANGED <<state, current_server, auth_callback, config_file, authLog,
                   saveLog, ret, stateTrace>>
    /\ UNCHANGED <<lst, listenerExc>>
    /\ UNCHANGED <<discVars, cfgVars, resVars>>

\* Line 153: self._state = DISCONNECTED.
DisconnectSetsState ==
    /\ ctl.op = "disconnect" /\ ctl.at = 153
    /\ state' = "disconnected"
    /\ ctl' = [ctl EXCEPT !.at = 154]
    /\ UNCHANGED <<api, current_server, auth_callback, sessions, config_file,
                   authLog, saveLog, ret, stateTrace>>
    /\ UNCHANGED <<lst, listenerExc>>
    /\ UNCHANGED <<discVars, cfgVars, resVars>>

\* Line 154: self._current_server = None; disconnect returns.
DisconnectClearsServer ==
    /\ ctl.op = "disconnect" /\ ctl.at = 154
    /\ current_server' = <<>>
    /\ ctl' = ControlIdle("disconnect")
    /\ UNCHANGED <<state, api, auth_callback, sessions, config_file, authLog,
                   saveLog, ret, stateTrace>>
    /\ UNCHANGED <<lst, listenerExc>>
    /\ UNCHANGED <<discVars, cfgVars, resVars>>

\* Session i, registered and running, calls _on_state_change on its
\* background thread: line 110, the test of self._api and its token.
ListenerCalled(i) ==
    /\ lst = ListenerIdle
    /\ listenerExc = None
    /\ i \in 1..Len(sessions)
    /\ sessions[i].registered
    /\ ~sessions[i].stopped
    /\ LogsHaveRoom
    /\ SessionAuthorized
    /\ lst' = [at |-> 112]
    /\ UNCHANGED connVars
    /\ UNCHANGED <<ctl, listenerExc>>
    /\ UNCHANGED <<discVars, cfgVars, resVars>>

\* Line 112: self._state = CONNECTED.
ListenerSetsConnected ==
    /\ lst.at = 112
    /\ state' = "connected"
    /\ lst' = [at |-> 115]
    /\ UNCHANGED <<api, current_server, auth_callback, sessions, config_file,
                   authLog, saveLog, ret, stateTrace>>
    /\ UNCHANGED <<ctl, listenerExc>>
    /\ UNCHANGED <<discVars, cfgVars, resVars>>

\* Lines 115-122: `if self._current_server:` config_manager.update(...,
\* token=self._api.token, ...).  Reading .token of a cleared self._api
\* raises AttributeError, which leaves the listener.
ListenerSavesCredential ==
    /\ lst.at = 115
    /\ Len(saveLog) < MaxLog
    /\ IF current_server = <<>>
       THEN /\ lst' = [at |-> 124]
            /\ UNCHANGED <<config_file, saveLog, listenerExc>>
       ELSE IF api = 0
       THEN /\ lst' = ListenerIdle
            /\ listenerExc' = "AttributeError"
            /\ UNCHANGED <<config_file, saveLog>>
       ELSE IF UpdateException(config_file) # None
       THEN /\ lst' = ListenerIdle
            /\ listenerExc' = UpdateException(config_file)
            /\ UNCHANGED <<config_file, saveLog>>
       ELSE LET written == ConfigUpdate(config_file,
                             CredentialOf(current_server[1], sessions[api].token))
            IN  /\ config_file' = ConfigSave(written)
                /\ saveLog' = Append(saveLog, written)
                /\ lst' = [at |-> 124]
                /\ UNCHANGED listenerExc
    /\ UNCHANGED <<state, api, current_server, auth_callback, sessions, authLog,
                   ret, stateTrace>>
    /\ UNCHANGED ctl
    /\ UNCHANGED <<discVars, cfgVars, resVars>>

\* Lines 124-126: the success status, built from self._api.token, is
\* notified; the listener returns.  cbRaises: the auth callback raises.
ListenerNotifies(cbRaises) ==
    /\ lst.at = 124
    /\ Len(authLog) < MaxLog
    /\ lst' = ListenerIdle
    /\ IF api = 0
       THEN /\ ~cbRaises
            /\ listenerExc' = "AttributeError"
            /\ UNCHANGED authLog
       ELSE /\ authLog' = NotifyAuthStatus(authLog,
                             AuthenticationStatus(TRUE, sessions[api].token, None),
                             cbRaises)
            /\ UNCHANGED listenerExc
    /\ UNCHANGED <<state, api, current_server, auth_callback, sessions,
                   config_file, saveLog, ret, stateTrace>>
    /\ UNCHANGED ctl
    /\ UNCHANGED <<discVars, cfgVars, resVars>>

NextThreads ==
    \/ SetAuthCallback
    \/ \E server \in Servers : \E token \in {None, CoreToken(server.host)} :
         ConnectCalled(server, token)
    \/ ConnectSetsServer
    \/ \E ctorRaises \in BOOLEAN : ConnectCreatesSession(ctorRaises)
    \/ \E registerRaises \in BOOLEAN : ConnectRegisters(registerRaises)
    \/ ConnectSetsAuthenticating
    \/ ConnectReturnsTrue
    \/ \E cbRaises \in BOOLEAN : ConnectExcept(cbRaises)
    \/ DisconnectCalled
    \/ \E stopRaises \in BOOLEAN : DisconnectStops(stopRaises)
    \/ DisconnectClearsApi
    \/ DisconnectSetsState
    \/ DisconnectClearsServer
    \/ \E i \in 1..MaxSessions : Authorize(i)
    \/ \E i \in 1..MaxSessions : ListenerCalled(i)
    \/ ListenerSetsConnected
    \/ ListenerSavesCredential
    \/ \E cbRaises \in BOOLEAN : ListenerNotifies(cbRaises)

Init == InitDiscovery /\ InitConnection /\ InitConfig /\ InitResolver /\ InitThreads

\* Discovery reads no configuration: one stored file stands for all.
InitNoConfig == Init /\ config_file = <<>>

SpecDiscovery == InitNoConfig /\ [][NextDiscovery]_vars

SpecConnection == Init /\ [][NextConnection]_vars

SpecConfig == Init /\ [][NextConfig]_vars

\* The resolver on every enumeration subsystem of NetEnvironments.
InitAnyNetwork ==
    /\ InitDiscovery /\ InitConnection /\ config_file = <<>>
    /\ InitConfig /\ InitThreads
    /\ netifaces \in NetEnvironments /\ NotResolved

SpecThreads == InitNoConfig /\ [][NextThreads]_vars

SpecResolver == InitAnyNetwork /\ [][NextResolver]_vars

\* ------------------------------------------------- discovery: properties

\* The list the caller sees: the returned one once the call is over.
Listed == IF pc = "done" THEN result ELSE servers

CarriesId(d, u) ==
    d.kind = "ok" /\ "unique_id" \in DOMAIN d.props /\ d.props.unique_id = u

\* The http_port texts of the responses that are decimal numbers.
NumericPortTexts ==
    {<<"9", "3", "3", "0">>, <<"0">>, <<"-", "1">>, <<"6", "5", "5", "3", "6">>}

\* The number a decimal http_port text writes.
PortNumber(text) ==
    IF text = <<"9", "3", "3", "0">> THEN 9330
    ELSE IF text = <<"0">> THEN 0
    ELSE IF text = <<"-", "1">> THEN 0 - 1
    ELSE 65536

\* A decodable response with a unique_id whose http_port is absent or a
\* decimal number.
ValidResponse(d) ==
    /\ d.kind = "ok"
    /\ "unique_id" \in DOMAIN d.props
    /\ "http_port" \in DOMAIN d.props => d.props.http_port \in NumericPortTexts

NonNumericPort(d) ==
    d.kind = "ok" /\ "http_port" \in DOMAIN d.props
      /\ d.props.http_port = <<"a", "b", "c">>

\* The place in the log of the first response carrying id u (0: none).
FirstCarrying(u) ==
    IF \E i \in 1..Len(log) : CarriesId(log[i], u)
    THEN CHOOSE i \in 1..Len(log) :
           CarriesId(log[i], u) /\ \A j \in 1..(i - 1) : ~CarriesId(log[j], u)
    ELSE 0

DigitChars == <<"0", "1", "2", "3", "4", "5", "6", "7", "8", "9">>

RECURSIVE NatText(_)
NatText(n) ==
    IF n < 10 THEN <<DigitChars[n + 1]>>
    ELSE NatText(n \div 10) \o <<DigitChars[(n % 10) + 1]>>

\* The decimal text of an integer.
DecimalText(n) == IF n < 0 THEN <<"-">> \o NatText(0 - n) ELSE NatText(n)

\* Record s carries every field that response d has.
Carries(s, d) ==
    /\ s.host = d.host
    /\ "name" \in DOMAIN d.props => s.core_name = d.props.name
    /\ "display_version" \in DOMAIN d.props =>
         s.display_version = d.props.display_version
    /\ "http_port" \in DOMAIN d.props => DecimalText(s.http_port) = d.props.http_port

\* C2: the list holds at most one record per unique_id, the record of an id
\* is built from the first response that carried the id, and the records are
\* in the order in which their ids were first seen.
C2_DedupFirstSeen ==
    /\ \A i, j \in 1..Len(Listed) :
         Listed[i].core_id = Listed[j].core_id => i = j
    /\ \A k \in 1..Len(Listed) :
         Listed[k].core_id \in UniqueIds =>
           /\ FirstCarrying(Listed[k].core_id) # 0
           /\ Carries(Listed[k], log[FirstCarrying(Listed[k].core_id)])
           /\ "name" \notin DOMAIN log[FirstCarrying(Listed[k].core_id)].props
                => Listed[k].core_name = "Unknown"
    /\ \A k1, k2 \in 1..Len(Listed) :
         (k1 < k2 /\ Listed[k1].core_id \in UniqueIds /\ Listed[k2].core_id \in UniqueIds)
           => FirstCarrying(Listed[k1].core_id) < FirstCarrying(Listed[k2].core_id)

\* C2 witness: the same id arrived twice with different fields around another
\* id, and the call returned two records.
C2_Witness ==
    /\ pc = "done"
    /\ Len(result) = 2
    /\ \E i, j \in 1..Len(log) :
         /\ i + 1 < j
         /\ \E u \in UniqueIds : CarriesId(log[i], u) /\ CarriesId(log[j], u)
         /\ log[i].host # log[j].host
         /\ ValidResponse(log[i]) /\ ValidResponse(log[j])

\* C3: a decoded response without unique_id never yields an entry of the
\* returned list, and every valid response carrying an id is represented.
C3_NoIdNeverListed ==
    /\ \A k \in 1..Len(result) : result[k].core_id # ""
    /\ (pc = "done" /\ endedBy \in {"timeout", "ioerror"}) =>
         \A i \in 1..Len(log) :
           ValidResponse(log[i]) =>
             \E k \in 1..Len(result) : result[k].core_id = log[i].props.unique_id

\* C4: the receive loop never runs past `timeout` after its start.
C4_OverallDeadline == pc # "idle" => elapsed <= timeout

\* C5: with no datagram at all the loop is over once `timeout` has passed,
\* and the call returns the empty list without raising.
C5_EmptyAfterTimeout ==
    log = <<>> =>
      /\ ~raised
      /\ pc = "recv" => (elapsed <= timeout /\ (elapsed = timeout => ENABLED RecvTimeout))
      /\ pc = "done" => (result = <<>> /\ elapsed <= timeout)

\* C5 witness: the call returned on the timeout with nothing received.
C5_Witness ==
    /\ pc = "done" /\ endedBy = "timeout" /\ log = <<>>
    /\ elapsed = timeout /\ result = <<>>

\* C6: a datagram that fails format validation never raises, adds no record
\* and leaves the loop listening; a valid response received after it is in
\* the list.
C6_MalformedSkipped ==
    /\ [](/\ ~raised
          /\ \A i, j \in 1..Len(log) :
               (i < j /\ log[i].kind = "malformed" /\ ValidResponse(log[j])) =>
                 \E k \in 1..Len(Listed) :
                   Listed[k].core_id = log[j].props.unique_id)
    /\ [][(Len(log') = Len(log) + 1 /\ log'[Len(log')].kind = "malformed") =>
            (servers' = servers /\ seen_unique_ids' = seen_unique_ids
               /\ pc' = "recv" /\ sockOpen')]_vars

\* C6 witness: a malformed datagram, then a valid response, and the call
\* returned the latter's record.
C6_Witness ==
    /\ pc = "done" /\ Len(result) = 1 /\ Len(log) = 2
    /\ log[1].kind = "malformed" /\ ValidResponse(log[2])
    /\ result[1].core_id = log[2].props.unique_id

\* C7: a decoded response with a non-numeric http_port leaves the loop
\* listening.
C7_BadPortKeepsListening ==
    [][(Len(log') = Len(log) + 1 /\ NonNumericPort(log'[Len(log')])) =>
         pc' = "recv"]_vars

\* C8: a record takes http_port 9100, core_name "Unknown" and display_version
\* "Unknown" for the properties the response lacks, the response's own values
\* for those it has, and the datagram's source address as host.
C8_Defaulting ==
    \A k \in 1..Len(Listed) :
      Listed[k].core_id \in UniqueIds =>
        LET d == log[FirstCarrying(Listed[k].core_id)]
        IN  /\ FirstCarrying(Listed[k].core_id) # 0
            /\ Listed[k].host = d.host
            /\ Listed[k].http_port =
                 (IF "http_port" \in DOMAIN d.props
                  THEN PortNumber(d.props.http_port) ELSE 9100)
            /\ Listed[k].core_name =
                 (IF "name" \in DOMAIN d.props THEN d.props.name ELSE "Unknown")
            /\ Listed[k].display_version =
                 (IF "display_version" \in DOMAIN d.props
                  THEN d.props.display_version ELSE "Unknown")

\* C8 witness: the call returned a defaulted record and a fully given one.
C8_Witness ==
    /\ pc = "done"
    /\ \E k \in 1..Len(result) :
         /\ result[k].core_id \in UniqueIds
         /\ result[k].http_port = 9100
         /\ result[k].core_name = "Unknown"
         /\ result[k].display_version = "Unknown"
    /\ \E k \in 1..Len(result) :
         /\ result[k].core_id \in UniqueIds
         /\ result[k].http_port = 9330
         /\ result[k].core_name = "Core"

\* C9: no exception leaves discover_servers, and a failure before the
\* receive loop returns the empty list.
C9_NeverRaises ==
    /\ ~raised
    /\ (pc = "done" /\ endedBy = "preloop") => result = <<>>

\* C9 witness: the socket could not be bound and the call returned.
C9_Witness ==
    pc = "done" /\ endedBy = "preloop" /\ abortedAt = "bind" /\ result = <<>>

\* C10: when the loop ends on the timeout or on a receive error the records
\* accumulated so far are returned, and the socket is closed whenever the
\* call is over.
C10_ReturnsAccumulated ==
    pc = "done" =>
      /\ ~sockOpen
      /\ endedBy \in {"timeout", "ioerror"} => result = servers

\* C10 witness: a receive error after two records.
C10_Witness ==
    pc = "done" /\ endedBy = "ioerror" /\ Len(result) = 2 /\ ~sockOpen

\* ------------------------------------------------ connection: properties

\* The success statuses among those delivered.
SuccessStatuses == {i \in 1..Len(authLog) : authLog[i].is_authenticated}

\* C1: a connect that returned True went through Connecting to
\* Authenticating; once the attempt has reached Connected, exactly one
\* credential write was made for it, carrying the targeted server's core_id,
\* host and port and the session's token, and at most one success status was
\* delivered, however many state-change events the session delivers.
C1_AuthorizedOnce ==
    (state = "connected" /\ ret.value = "True") =>
      /\ stateTrace = <<"connecting", "authenticating">>
      /\ Len(saveLog) = 1
      /\ saveLog[1].core_id = current_server[1].core_id
      /\ saveLog[1].host = current_server[1].host
      /\ saveLog[1].port = <<current_server[1].http_port>>
      /\ saveLog[1].token = sessions[api].token
      /\ Cardinality(SuccessStatuses) <= 1

\* The session the manager holds has a token.
HoldsToken == api # 0 /\ sessions[api].token \notin {None, ""}

\* A step of connect in which RoonApi(...) and register_state_callback both
\* succeeded: a registered session was added.
ConnectSucceeds ==
    /\ Len(sessions') = Len(sessions) + 1
    /\ sessions'[Len(sessions')].registered

\* The token arguments connect is called with for a server.
TokenArguments(server) == {None, CoreToken(server.host)}

\* C11: a connect(server, token) whose session creation and listener
\* registration succeed returns True in state Authenticating, having passed
\* through Connecting, and targets `server` with a session opened against
\* its host and port with `token`; afterwards a session event at which the
\* session holds no token leaves the state Authenticating, and the state
\* becomes Connected only at a session event at which the session holds a
\* token.
C11_ConnectThenAuthenticating ==
    [][/\ ConnectSucceeds =>
            /\ ret'.value = "True"
            /\ state' = "authenticating"
            /\ stateTrace' = <<"connecting", "authenticating">>
            /\ api' = Len(sessions')
            /\ current_server' # <<>>
            /\ sessions'[api'].host = current_server'[1].host
            /\ sessions'[api'].port = current_server'[1].http_port
       /\ \A server \in {s \in Servers : current_server' = <<s>>}, cbRaises \in BOOLEAN :
            \A token \in TokenArguments(server) :
            Connect(server, token, "ok", cbRaises) =>
              /\ ConnectSucceeds
              /\ current_server' = <<server>>
              /\ sessions'[api'].token = token
       /\ \A i \in 1..MaxSessions, cbRaises \in BOOLEAN, updateRaises \in BOOLEAN :
            (state = "authenticating" /\ ~HoldsToken
               /\ StateChangeEvent(i, cbRaises, updateRaises))
              => state' = "authenticating"
       /\ (state # "connected" /\ state' = "connected") =>
            /\ HoldsToken
            /\ \E i \in 1..MaxSessions, cbRaises \in BOOLEAN, updateRaises \in BOOLEAN :
                 StateChangeEvent(i, cbRaises, updateRaises)
      ]_vars

\* C11 witness: connect(ServerA) returned True, the Core authorized the
\* session, one event moved the attempt from Authenticating to Connected.
C11_Witness ==
    /\ state = "connected"
    /\ ret = [op |-> "connect", value |-> "True"]
    /\ stateTrace = <<"connecting", "authenticating">>
    /\ current_server = <<ServerA>>
    /\ HoldsToken
    /\ Len(saveLog) = 1

\* A step of connect, direct or through reconnect_from_config, in which
\* RoonApi(...) or register_state_callback raised.
ConnectFails ==
    \/ /\ ret'.op = "connect"
       /\ \E outcome \in {"ctor_raises", "register_raises"}, cbRaises \in BOOLEAN :
            \E server \in {s \in Servers : current_server' = <<s>>} :
              \E token \in TokenArguments(server) :
                Connect(server, token, outcome, cbRaises)
    \/ /\ ret'.op = "reconnect_from_config"
       /\ \E outcome \in {"ctor_raises", "register_raises"}, cbRaises \in BOOLEAN :
            ReconnectFromConfig(outcome, cbRaises)

\* C12: when RoonApi(...) or register_state_callback raises inside connect,
\* connect returns False, the state is Error, the registered callback
\* receives exactly one AuthenticationStatus, with is_authenticated false and
\* an error message, config.json is not written and no exception leaves
\* connect.
C12_FailureReportedOnce ==
    [][ConnectFails =>
         /\ ret'.value = "False"
         /\ state' = "error"
         /\ stateTrace' = <<"connecting", "error">>
         /\ config_file' = config_file
         /\ saveLog' = <<>>
         /\ auth_callback = "unset" => authLog' = <<>>
         /\ auth_callback = "set" =>
              /\ Len(authLog') = 1
              /\ ~authLog'[1].is_authenticated
              /\ authLog'[1].token = None
              /\ authLog'[1].error_message # None
      ]_vars

\* C12 witness: register_state_callback raised with a callback registered:
\* the manager holds the unregistered session, one failure was delivered.
C12_Witness ==
    /\ state = "error"
    /\ ret.value = "False"
    /\ api # 0 /\ ~sessions[api].registered
    /\ Len(authLog) = 1 /\ ~authLog[1].is_authenticated

\* C13: every disconnect(), whether or not stop() raises, ends with state
\* Disconnected, no session handle and no targeted server; Disconnected
\* always goes with no session handle and no targeted server; a disconnect
\* in state Disconnected changes nothing.
C13_DisconnectClears ==
    /\ [](state = "disconnected" => api = 0 /\ current_server = <<>>)
    /\ [][\A stopRaises \in BOOLEAN :
            Disconnect(stopRaises) =>
              /\ state' = "disconnected" /\ api' = 0 /\ current_server' = <<>>
              /\ state = "disconnected" => UNCHANGED vars
         ]_vars

\* C13 witness: disconnect() from Connected while stop() raised: the state
\* is Disconnected and the only session ever created still runs.
C13_Witness ==
    /\ state = "disconnected" /\ api = 0 /\ current_server = <<>>
    /\ Len(saveLog) = 1
    /\ Len(sessions) = 1 /\ ~sessions[1].stopped

\* config.json holds no value for `key`: no file, no such key, or null.
LacksField(file, key) ==
    \/ file = <<>>
    \/ /\ file[1].kind = "object"
       /\ key \notin DOMAIN file[1].members \/ file[1].members[key].t = "null"

LacksSavedServer(file) ==
    LacksField(file, "core_id") \/ LacksField(file, "host") \/ LacksField(file, "port")

\* C14: when the stored record has no core_id, no host or no port,
\* reconnect_from_config returns False and the state, the session handle,
\* the targeted server, the sessions, config.json and the statuses delivered
\* are what they were.
C14_NoSavedServerNoEffect ==
    [][\A outcome \in ConnectOutcomes, cbRaises \in BOOLEAN :
         (LacksSavedServer(config_file) /\ ReconnectFromConfig(outcome, cbRaises)) =>
           /\ ret' = [op |-> "reconnect_from_config", value |-> "False"]
           /\ UNCHANGED <<state, api, current_server, auth_callback, sessions,
                          config_file, authLog, saveLog, stateTrace>>
      ]_vars

\* C14 witness: reconnect_from_config returned False during an attempt that
\* is still Authenticating, config.json holding a record whose only missing
\* field is the core_id.
C14_Witness ==
    /\ ret = [op |-> "reconnect_from_config", value |-> "False"]
    /\ state = "authenticating" /\ api # 0
    /\ config_file # <<>>
    /\ LacksField(config_file, "core_id")
    /\ ~LacksField(config_file, "host") /\ ~LacksField(config_file, "port")

\* The last attempt authenticated against server S and persisted S's
\* credential with the Core's token; disconnect() followed.
AuthenticatedThenDisconnected(S) ==
    /\ state = "disconnected"
    /\ saveLog # <<>>
    /\ saveLog[Len(saveLog)] = CredentialOf(S, CoreToken(S.host))
    /\ config_file = ConfigSave(CredentialOf(S, CoreToken(S.host)))

\* C15: after a successful authentication against server S with token t and
\* a disconnect(), reconnect_from_config targets a server record with S's
\* core_id, core_name, host and port and display_version "Unknown", opens a
\* session against S's host and port with token t, and returns what connect
\* returns.
C15_PersistReconnectRoundTrip ==
    [][\A S \in Servers, outcome \in ConnectOutcomes, cbRaises \in BOOLEAN :
         (AuthenticatedThenDisconnected(S) /\ ReconnectFromConfig(outcome, cbRaises)) =>
           /\ current_server' = <<[S EXCEPT !.display_version = "Unknown"]>>
           /\ outcome # "ctor_raises" =>
                /\ api' = Len(sessions) + 1
                /\ sessions'[api'].host = S.host
                /\ sessions'[api'].port = S.http_port
                /\ sessions'[api'].token = CoreToken(S.host)
           /\ ret' = [op |-> "reconnect_from_config",
                       value |-> IF outcome = "ok" THEN "True" ELSE "False"]
      ]_vars

\* C16: what the auth callback raises leaves neither connect nor the
\* authorization listener, and the state, the session handle, the targeted
\* server and config.json after a notification on which the callback raised
\* are those the handler produces with a callback that returns.
C16_CallbackExceptionContained ==
    /\ [](ret.value # "raised")
    /\ [][/\ \A server \in {s \in Servers : current_server' = <<s>>},
              outcome \in {"ctor_raises", "register_raises"} :
              \A token \in TokenArguments(server) :
              Connect(server, token, outcome, TRUE) =>
                /\ state' = "error"
                /\ ret' = [op |-> "connect", value |-> "False"]
                /\ current_server' = <<server>>
                /\ api' = IF outcome = "ctor_raises" THEN api ELSE Len(sessions) + 1
                /\ config_file' = config_file
          /\ \A i \in 1..MaxSessions :
               (HoldsToken /\ StateChangeEvent(i, TRUE, FALSE)) =>
                 /\ state' = "connected"
                 /\ ret' = ret
                 /\ api' = api
                 /\ current_server' = current_server
                 /\ config_file' =
                      IF current_server = <<>> THEN config_file
                      ELSE ConfigSave(CredentialOf(current_server[1], sessions[api].token))
         ]_vars

\* C16 witness: the callback raised on the success status of an attempt
\* against ServerB; the attempt is Connected and the credential is stored.
C16_Witness ==
    /\ state = "connected"
    /\ Len(authLog) = 1
    /\ authLog[1].is_authenticated /\ authLog[1].cb_raised
    /\ current_server = <<ServerB>>
    /\ config_file = ConfigSave(CredentialOf(ServerB, "tok-b"))

\* C17: config.json changes only in a run of the authorization listener at
\* which the session holds a token and which leaves the state Connected:
\* connect, succeeding or failing, disconnect, reconnect_from_config and a
\* session event at which the session holds no token leave it as it was.
C17_WrittenOnlyOnAuthentication ==
    [][config_file' # config_file =>
         /\ HoldsToken
         /\ state' = "connected"
         /\ \E i \in 1..MaxSessions, cbRaises \in BOOLEAN :
              StateChangeEvent(i, cbRaises, FALSE)
         /\ \A outcome \in ConnectOutcomes, cbRaises \in BOOLEAN :
              /\ \A server \in Servers :
                   \A token \in TokenArguments(server) :
                     ~Connect(server, token, outcome, cbRaises)
              /\ ~ReconnectFromConfig(outcome, cbRaises)
         /\ \A stopRaises \in BOOLEAN : ~Disconnect(stopRaises)
      ]_vars

\* C17 witness: the credential of ServerA was persisted, then a connect to
\* ServerB failed: config.json still holds ServerA's credential.
C17_Witness ==
    /\ config_file = ConfigSave(CredentialOf(ServerA, "tok-a"))
    /\ state = "error"
    /\ current_server = <<ServerB>>
    /\ ret = [op |-> "connect", value |-> "False"]

\* C20: every change of the state is an edge of the declared graph: a
\* connect goes through Connecting to Authenticating or to Error, the
\* listener moves Authenticating to Connected and nothing else to Connected,
\* disconnect leads to Disconnected from anywhere.
C20_DeclaredGraph ==
    [][state' # state =>
         \/ state' = "disconnected"
         \/ state' \in {"authenticating", "error"}
              /\ stateTrace' = <<"connecting", state'>>
         \/ state = "authenticating" /\ state' = "connected"
      ]_vars

\* C23: every record the authorization listener writes carries the host and
\* port of the server against which the session holding the written token
\* was opened.
C23_TokenPairedWithItsServer ==
    [][(Len(saveLog') = Len(saveLog) + 1 /\ api # 0) =>
         /\ saveLog'[Len(saveLog')].token = sessions[api].token
         /\ saveLog'[Len(saveLog')].host = sessions[api].host
         /\ saveLog'[Len(saveLog')].port = <<sessions[api].port>>
      ]_vars

\* C24: at most one session that was created has not been asked to stop.
C24_SingleActiveSession ==
    Cardinality({i \in 1..Len(sessions) : ~sessions[i].stopped}) <= 1

\* C25: the manager holds a session handle only in state Connected.
C25_HandleOnlyWhenConnected == state # "connected" => api = 0

\* C26: every entry of the state into Connected, with a callback registered,
\* comes with the delivery of one AuthenticationStatus with
\* is_authenticated true, also when config_manager.update raises in the
\* listener.
C26_ConnectedMeansNotified ==
    [][(state # "connected" /\ state' = "connected" /\ auth_callback = "set") =>
         /\ Len(authLog') = Len(authLog) + 1
         /\ authLog'[Len(authLog')].is_authenticated
         /\ authLog'[Len(authLog')].token = sessions[api].token
      ]_vars

\* ---------------------------------------------- configuration: properties

\* C18: for every AppConfig c, whichever of its fields are None, a load()
\* that follows save(c) returns a record whose core_id, core_name, token,
\* host and port are those of c.
C18_SaveLoadRoundTrip ==
    [][(cfgCall.op = "save" /\ cfgCall'.op = "load") =>
         \A k \in AppConfigFields : cfgCall'.value[k] = cfgCall.config[k]
      ]_vars

\* C18 witness: load() after save(c) returned a record with core_id and port
\* set and token and host None.
C18_Witness ==
    /\ cfgCall.op = "load" /\ cfgCall.after = "save"
    /\ cfgCall.value.core_id = "core-b" /\ cfgCall.value.port = <<9100>>
    /\ cfgCall.value.token = None /\ cfgCall.value.host = None

\* The value config.json holds for `key` (None when it holds none).
StoredValue(file, key) ==
    IF LacksField(file, key) THEN (IF key = "port" THEN <<>> ELSE None)
    ELSE IF key = "port" THEN <<file[1].members[key].v>> ELSE file[1].members[key].v

\* config.json is absent or holds a record: a JSON object whose members
\* are null or of their field's type.
HoldsRecordOrNothing(file) ==
    \/ file = <<>>
    \/ /\ file[1].kind = "object"
       /\ \A k \in DOMAIN file[1].members :
            file[1].members[k].t \in
                {"null", IF k = "port" THEN "number" ELSE "string"}

\* C19: update(fields) returns the record stored before the call with the
\* named fields overwritten, every other field keeping its stored value
\* (None when nothing was stored); config.json holds that record afterwards
\* and a load() that follows returns it.
C19_UpdateOverwritesNamed ==
    /\ []((cfgCall.op = "update" /\ HoldsRecordOrNothing(cfgCall.before)) =>
            \A k \in AppConfigFields :
              /\ cfgCall.value[k] = IF k \in DOMAIN cfgCall.kwargs THEN cfgCall.kwargs[k]
                                     ELSE StoredValue(cfgCall.before, k)
              /\ StoredValue(config_file, k) = cfgCall.value[k])
    /\ [][(cfgCall.op = "update" /\ HoldsRecordOrNothing(cfgCall.before)
                                   /\ cfgCall'.op = "load") =>
            \A k \in AppConfigFields : cfgCall'.value[k] = cfgCall.value[k]
         ]_vars

\* C19 witness: update(token=None, host=None) on the stored record of
\* core-b: token and host are overwritten, core_id and port are kept.
C19_Witness ==
    /\ cfgCall.op = "update"
    /\ DOMAIN cfgCall.kwargs = {"token", "host"}
    /\ cfgCall.before = <<JsonDump(StoredB)>>
    /\ cfgCall.value.core_id = "core-b" /\ cfgCall.value.port = <<9100>>
    /\ cfgCall.value.token = None /\ cfgCall.value.host = None

\* C30: load() never raises, and returns the all-None default AppConfig
\* whenever config.json holds no valid record: it is absent, is not JSON,
\* or is JSON that is no AppConfig object (a field of the wrong type, a
\* top-level value that is no object).
C30_LoadNeverRaises ==
    cfgCall.op = "load" =>
        /\ cfgCall.exc = None
        /\ (config_file = <<>> \/ ~HoldsRecordOrNothing(config_file)) =>
              cfgCall.value = DefaultAppConfig

\* C27: every record discover_servers returns, and every record it has
\* accumulated, has an http_port in 1..65535, whatever number the response's
\* http_port property wrote.
C27_PortInRange ==
    \A k \in 1..Len(Listed) : Listed[k].http_port \in 1..65535

\* ------------------------------------------------- resolution: properties

\* C28: when the enumeration library is loaded and lists the interfaces, the
\* set returned is the limited-broadcast address plus the broadcast address
\* of every IPv4 entry of every interface whose lookup succeeded, whatever
\* the lookups of the other interfaces raised.
C28_FailedInterfaceSkipped ==
    (~NotResolved /\ netifaces.importable /\ netifaces.listing = None) =>
        /\ resolverExc = None
        /\ broadcast_addrs =
             <<{LimitedBroadcast} \cup
                 UNION {BroadcastsOf(netifaces.lookups[i].inet) :
                          i \in {i \in 1..Len(netifaces.lookups) :
                                   netifaces.lookups[i].exc = None}}>>

\* C29: when the enumeration library cannot be loaded or listing the
\* interfaces raises, the call returns, and returns exactly the
\* limited-broadcast address.
C29_DegradesToLimitedBroadcast ==
    (~NotResolved /\ (~netifaces.importable \/ netifaces.listing # None)) =>
        /\ resolverExc = None
        /\ broadcast_addrs = <<{LimitedBroadcast}>>

\* ---------------------------------------------------- threads: properties

\* C21: under every interleaving of disconnect with the authorization
\* listener, from the return of disconnect until the next call of connect
\* the state is Disconnected, no session is held and no server is targeted,
\* and the listener never fails on a cleared session handle.
C21_DisconnectSerialized ==
    /\ (ctl.op = "idle" /\ ctl.last = "disconnect") =>
          /\ state = "disconnected"
          /\ api = 0
          /\ current_server = <<>>
    /\ listenerExc # "AttributeError"

\* C22: once connect has returned True, whenever a success status has been
\* delivered for the session the manager holds and no listener is running,
\* the state is Connected, until connect or disconnect is called again.
C22_DeliveredMeansConnected ==
    (/\ ctl.op = "idle" /\ ctl.last = "connect"
     /\ ret = [op |-> "connect", value |-> "True"]
     /\ lst = ListenerIdle
     /\ api # 0
     /\ \E k \in 1..Len(authLog) :
          authLog[k].is_authenticated /\ authLog[k].token = sessions[api].token)
      => state = "connected"

====
